---- MODULE Spec2Model ----
(***************************************************************************)
(* Weather station (Raspberry Pi): ingestion endpoints, the SQLite store   *)
(* (database.py), the in-memory sync queue and the cleanup scheduler       *)
(* (weather_station.py), the Misol HTTP endpoints (misol_server.py,        *)
(* misol_hybrid.py), and the capture loops (weather_interceptor.py,        *)
(* misol_hybrid.py).                                                       *)
(*                                                                         *)
(* Time is counted in hours.  A timestamp string 'YYYY-MM-DD HH:MM:SS' is  *)
(* modelled by its hour number: the strings are fixed width, so SQLite's   *)
(* text comparison orders them as the numbers are ordered.                 *)
(***************************************************************************)
EXTENDS Integers, Sequences, FiniteSets, TLC

\* ---------------------------------------------------------------- bounds
MaxRequests == 4        \* ingestion requests in one behaviour
MaxHttpRequests == 2    \* requests in one behaviour of the endpoint model
MaxQueue == 2           \* stands for the 1000 of process_sync_queue
MaxTime == 30           \* last hour of the UTC clock
ClockStep == 6          \* hours the clock advances in one step
MaxRows == 2            \* inserts in one behaviour of the store model
MaxDecodes == 2         \* reports in one behaviour of the decoder model
RetentionDays == 1      \* stands for the 60 of cleanup_old_data()

\* ------------------------------------------------------ program constants
HoursPerDay == 24
GmtShift == 7           \* timedelta(hours=7)
ConfigDeviceId == 44    \* raspi_settings['device_id']
FallbackDeviceId == 99  \* data.get('device_id', 99), self.device_id or 99

Threads == {"t1", "t2"}             \* Flask request threads
Cleaners == {"sched", "api"}        \* callers of cleanup_old_data
TzOffsets == {0 - 6, 0, 7}          \* UTC offset of the host clock, in hours

NoDate == 0 - 100                   \* the empty string '' of a missing dateutc
Null == 0 - 300                     \* None in a reading, NULL in a column
Absent == 0 - 400                   \* a key the reading does not have
NoReading == [n |-> 0, device_id |-> 0, datetime |-> NoDate, humidity_out |-> 0,
              temp_out_c |-> 0]

\* ------------------------------------------------------- the wire format
\* A report is reduced to what the handlers branch on: the `id` parameter,
\* the `dateutc` parameter, whether the numeric parameters can be coerced,
\* and whether one of 'windspeedmph=', 'tempf=', 'humidity=' occurs in it.
AbsentId == 0 - 1                   \* no `id`, or an empty one
BadId == 0 - 2                      \* an `id` that int() rejects
AbsentDate == NoDate                \* no `dateutc`
BadDate == 0 - 200                  \* a `dateutc` that strptime rejects

Wires == [id : {AbsentId, BadId, 7}, dateutc : {AbsentDate, BadDate, 10},
          num : {"absent", "ok", "bad"}, marker : BOOLEAN]

\* no report received yet
NoWire == [id |-> AbsentId, dateutc |-> AbsentDate, num |-> "absent", marker |-> FALSE]

VARIABLES
    \* the store (database.py)
    rows,           \* table weather_data: set of [id, n, device_id, datetime, created_at]
    seq,            \* sqlite_sequence of weather_data (AUTOINCREMENT)
    now,            \* UTC clock, in hours
    tz,             \* UTC offset of the host clock, in hours
    \* the station process (weather_station.py)
    sync_enabled,   \* raspi_settings['external_sync']['enabled']
    sync_queue,     \* config.sync_queue
    online,         \* what check_internet_connection would see
    rpc,            \* position of each request thread
    rdata,          \* the weather_data dict of each request thread
    resp,           \* last response of each request thread / endpoint
    spc,            \* position of the cleanup_scheduler thread in process_sync_queue
    queue_copy,     \* local queue_copy of process_sync_queue
    sidx,           \* position of the for loop in queue_copy
    slice_tmp,      \* value of config.sync_queue[-1000:] before it is stored
    \* cleanup_old_data / reset_database calls in progress
    cpc, ccutoff, ccount, cret,
    rstpc, rstcount, rstret,
    \* history
    nreq,           \* number of requests received
    enqueued,       \* readings ever appended to the queue
    trimmed,        \* readings cut off by the size limit
    sent,           \* readings the remote answered with HTTP 200
    pass_failed,    \* readings of the current pass whose relay failed
    cremoved,       \* rows each cleanup call has deleted
    last_insert,    \* [ret, wrote, n, closed] of the last WeatherDatabase.save_weather_data;
                    \* closed: the call executed conn.close() before it returned
    last_wire,      \* the report last handed to a decoder (kept by the decoder model)
    \* the store file and the processes
    columns,        \* columns of table weather_data; {} when there is no table
    proc,           \* position of the station process in its start-up
    init_ret,       \* what init_database returned to WeatherDatabase.__init__
    listener,       \* the capture loop of the interceptor / sniffer: [state, dropped]
    \* the station's settings and its scheduler thread
    auto_cleanup_days,  \* raspi_settings['data_storage']['auto_cleanup_days']
    last_cleanup        \* the local last_cleanup of cleanup_scheduler

storeVars == <<rows, seq, now, tz>>
stationVars == <<sync_enabled, sync_queue, online, rpc, rdata, resp, spc,
                 queue_copy, sidx, slice_tmp>>
maintVars == <<cpc, ccutoff, ccount, cret, rstpc, rstcount, rstret>>
histVars == <<nreq, enqueued, trimmed, sent, pass_failed, cremoved, last_insert>>
schedVars == <<auto_cleanup_days, last_cleanup>>
sysVars == <<columns, proc, init_ret, listener, schedVars>>
vars == <<storeVars, stationVars, maintVars, histVars, last_wire, sysVars>>

Range(s) == {s[i] : i \in 1..Len(s)}
Max(a, b) == IF a >= b THEN a ELSE b

\* what a request was answered with
Response(st, b, ep, n) == [status |-> st, body |-> b, endpoint |-> ep, n |-> n]


\* ------------------------------------------------------------ the store
\* database.py: WeatherDatabase

MaxRowId(rs) == IF rs = {} THEN 0 ELSE CHOOSE m \in {r.id : r \in rs} : \A r \in rs : r.id <= m

\* id INTEGER PRIMARY KEY AUTOINCREMENT
NextRowId(rs, s) == Max(s, MaxRowId(rs)) + 1

\* data.get(key, default): the default for a missing key only, a None stays
GetOr(v, d) == IF v = Absent THEN d ELSE v

\* The values of the INSERT: data.get('device_id', 99), data.get('datetime',
\* ''), data.get(field, 0) for the measurements (two of them are kept here).
\* created_at TIMESTAMP DEFAULT CURRENT_TIMESTAMP: the UTC time of the insert
NewRow(rs, s, rd, t) ==
    [id |-> NextRowId(rs, s), n |-> rd.n,
     device_id |-> GetOr(rd.device_id, FallbackDeviceId),
     datetime |-> GetOr(rd.datetime, NoDate),
     humidity_out |-> GetOr(rd.humidity_out, 0),
     temp_out_c |-> GetOr(rd.temp_out_c, 0),
     created_at |-> t]

\* INSERT INTO weather_data (...) VALUES (...): no look-up of the key, and the
\* table has no UNIQUE constraint
InsertRow(rs, s, rd, t) == rs \cup {NewRow(rs, s, rd, t)}

\* datetime.now(): the host's local clock
LocalNow == now + tz

\* cutoff_date = datetime.now() - timedelta(days=days)
Cutoff(days) == LocalNow - days * HoursPerDay

\* WHERE created_at < ?
OlderThan(rs, cutoff) == {r \in rs : r.created_at < cutoff}

SameKey(r1, r2) == r1.device_id = r2.device_id /\ r1.datetime = r2.datetime

\* The columns of CREATE TABLE weather_data; the twenty measurement columns
\* (windspeed_kmh ... wh65_batt) are one entry.
AllColumns == {"id", "device_id", "datetime", "measurements", "model", "passkey",
               "created_at"}

\* required_columns of init_database
RequiredColumns == {"device_id", "model", "passkey"}

\* the columns the INSERT of save_weather_data names
InsertColumns == AllColumns \ {"id", "created_at"}

\* the INSERT raises "no such table" / "no such column" otherwise
CanInsert == InsertColumns \subseteq columns

\* Everything but the store's content and the start-up: no request yet.
InitProcess ==
    /\ now = 0
    /\ tz \in TzOffsets
    /\ sync_enabled \in BOOLEAN
    /\ sync_queue = <<>>
    /\ online \in BOOLEAN
    /\ rpc = [t \in Threads |-> "idle"]
    /\ rdata = [t \in Threads |-> NoReading]
    /\ resp = [status |-> 0, body |-> "", endpoint |-> "none", n |-> 0]
    /\ spc = "idle"
    /\ queue_copy = <<>>
    /\ sidx = 1
    /\ slice_tmp = <<>>
    /\ cpc = [c \in Cleaners |-> "idle"]
    /\ ccutoff = [c \in Cleaners |-> 0]
    /\ ccount = [c \in Cleaners |-> 0]
    /\ cret = [c \in Cleaners |-> [ok |-> TRUE, count |-> 0, closed |-> TRUE]]
    /\ rstpc = "idle"
    /\ rstcount = 0
    /\ rstret = [ok |-> TRUE, count |-> 0]
    /\ nreq = 0
    /\ enqueued = {}
    /\ trimmed = {}
    /\ sent = {}
    /\ pass_failed = {}
    /\ cremoved = [c \in Cleaners |-> 0]
    /\ last_insert = [ret |-> TRUE, wrote |-> FALSE, n |-> 0, closed |-> TRUE]
    /\ last_wire = NoWire
    /\ listener = [state |-> "running", dropped |-> 0]
    /\ auto_cleanup_days = RetentionDays
    /\ last_cleanup = 0

\* An empty table with the current schema, the station serving.
InitAny ==
    /\ InitProcess
    /\ rows = {}
    /\ seq = 0
    /\ columns = AllColumns
    /\ proc = "serving"
    /\ init_ret = TRUE

\* The store's clock advances.
Tick ==
    /\ now + ClockStep <= MaxTime
    /\ now' = now + ClockStep
    /\ UNCHANGED <<rows, seq, tz, stationVars, maintVars, histVars>>
    /\ UNCHANGED <<last_wire, sysVars>>

\* Keys of the readings handed to the store: device 44, two timestamps.
StoreDates == {17, 27}

\* WeatherDatabase.save_weather_data(data): INSERT, commit, return True;
\* any exception (a locked database, an I/O error): return False.
SaveWeatherData ==
    /\ nreq < MaxRows
    /\ \E d \in StoreDates, ok \in BOOLEAN :
         /\ ok => CanInsert
         /\ LET rd == [n |-> nreq + 1, device_id |-> ConfigDeviceId, datetime |-> d,
                       humidity_out |-> 50, temp_out_c |-> 25] IN
              /\ nreq' = nreq + 1
              /\ IF ok
                   THEN /\ rows' = InsertRow(rows, seq, rd, now)
                        /\ seq' = NextRowId(rows, seq)
                   ELSE UNCHANGED <<rows, seq>>
              /\ last_insert' = [ret |-> ok, wrote |-> ok, n |-> rd.n,
                                 closed |-> ok]
    /\ UNCHANGED <<now, tz, stationVars, maintVars, enqueued, trimmed, sent,
                   pass_failed, cremoved>>
    /\ UNCHANGED <<last_wire, sysVars>>

\* WeatherDatabase.cleanup_old_data(days), up to the SELECT COUNT(*).  With
\* no old row the call returns (True, 0) at once.
CleanupCount(c) ==
    /\ cpc[c] = "idle"
    /\ LET cutoff == Cutoff(RetentionDays)
           cnt == Cardinality(OlderThan(rows, cutoff)) IN
         /\ cremoved' = [cremoved EXCEPT ![c] = 0]
         /\ IF cnt > 0
              THEN /\ cpc' = [cpc EXCEPT ![c] = "delete"]
                   /\ ccutoff' = [ccutoff EXCEPT ![c] = cutoff]
                   /\ ccount' = [ccount EXCEPT ![c] = cnt]
                   /\ UNCHANGED cret
              ELSE /\ cpc' = [cpc EXCEPT ![c] = "ret"]
                   /\ cret' = [cret EXCEPT ![c] = [ok |-> TRUE, count |-> 0,
                                                   closed |-> TRUE]]
                   /\ UNCHANGED <<ccutoff, ccount>>
    /\ UNCHANGED <<storeVars, stationVars, rstpc, rstcount, rstret, nreq, enqueued,
                   trimmed, sent, pass_failed, last_insert>>
    /\ UNCHANGED <<last_wire, columns, proc, init_ret, listener, auto_cleanup_days>>

\* DELETE FROM weather_data WHERE created_at < ?; commit
CleanupDelete(c) ==
    /\ cpc[c] = "delete"
    /\ rows' = rows \ OlderThan(rows, ccutoff[c])
    /\ cremoved' = [cremoved EXCEPT ![c] = Cardinality(OlderThan(rows, ccutoff[c]))]
    /\ cpc' = [cpc EXCEPT ![c] = "vacuum"]
    /\ UNCHANGED <<seq, now, tz, stationVars, ccutoff, ccount, cret, rstpc, rstcount,
                   rstret, nreq, enqueued, trimmed, sent, pass_failed, last_insert>>
    /\ UNCHANGED <<last_wire, sysVars>>

\* VACUUM, close, return (True, count_to_delete); when VACUUM raises, the
\* except branch returns (False, 0) after the delete was committed.
CleanupVacuum(c) ==
    /\ cpc[c] = "vacuum"
    /\ \E ok \in BOOLEAN :
         cret' = [cret EXCEPT ![c] =
                    IF ok THEN [ok |-> TRUE, count |-> ccount[c], closed |-> TRUE]
                          ELSE [ok |-> FALSE, count |-> 0, closed |-> FALSE]]
    /\ cpc' = [cpc EXCEPT ![c] = "ret"]
    /\ ccutoff' = [ccutoff EXCEPT ![c] = 0]
    /\ ccount' = [ccount EXCEPT ![c] = 0]
    /\ UNCHANGED <<storeVars, stationVars, rstpc, rstcount, rstret, histVars>>
    /\ UNCHANGED <<last_wire, sysVars>>

\* the caller has the pair cleanup_old_data returned
CleanupReturn(c) ==
    /\ cpc[c] = "ret"
    /\ cpc' = [cpc EXCEPT ![c] = "idle"]
    /\ UNCHANGED <<storeVars, stationVars, ccutoff, ccount, cret, rstpc, rstcount,
                   rstret, histVars>>
    /\ UNCHANGED <<last_wire, sysVars>>

\* WeatherDatabase.reset_database(), up to the SELECT COUNT(*)
ResetCount ==
    /\ rstpc = "idle"
    /\ rows # {}
    /\ rstcount' = Cardinality(rows)
    /\ rstpc' = "delete"
    /\ UNCHANGED <<storeVars, stationVars, cpc, ccutoff, ccount, cret, rstret, histVars>>
    /\ UNCHANGED <<last_wire, sysVars>>

\* DELETE FROM weather_data; DELETE FROM sqlite_sequence; commit
ResetDelete ==
    /\ rstpc = "delete"
    /\ rows' = {}
    /\ seq' = 0
    /\ rstret' = [ok |-> TRUE, count |-> rstcount]
    /\ rstpc' = "idle"
    /\ rstcount' = 0
    /\ UNCHANGED <<now, tz, stationVars, cpc, ccutoff, ccount, cret, histVars>>
    /\ UNCHANGED <<last_wire, sysVars>>

NextStore ==
    \/ Tick
    \/ SaveWeatherData
    \/ \E c \in Cleaners : CleanupCount(c) /\ UNCHANGED last_cleanup
    \/ \E c \in Cleaners : CleanupDelete(c)
    \/ \E c \in Cleaners : CleanupVacuum(c)
    \/ \E c \in Cleaners : CleanupReturn(c)
    \/ ResetCount
    \/ ResetDelete

\* The store alone: forwarding and connectivity play no part.
InitStore == InitAny /\ sync_enabled /\ online

SpecStore == InitStore /\ [][NextStore]_vars


\* --------------------------------------- start-up, the schema, the files
\* database.py: init_database; weather_station.py: line 136, main,
\* handle_download, handle_delete, api_weather_latest

\* CREATE TABLE IF NOT EXISTS weather_data (...)
CreateIfAbsent(cols) == IF cols = {} THEN AllColumns ELSE cols

\* the required columns PRAGMA table_info does not list
MissingColumns(cols) == RequiredColumns \ CreateIfAbsent(cols)

\* The table after init_database.  added: the missing columns whose ALTER
\* TABLE ... ADD COLUMN succeeded; for the others the statement raised an
\* OperationalError other than "duplicate column name" (a locked or read-only
\* database), the loop printed a warning and went on.
ColumnsAfterInit(cols, added) == CreateIfAbsent(cols) \cup added

\* init_database(): ok = FALSE when makedirs, connect or CREATE TABLE raises
\* (the except branch returns False and the file is as it was); else the
\* statements are applied and the call returns True.
InitDatabaseCall(ok, added) ==
    /\ added \subseteq MissingColumns(columns)
    /\ columns' = IF ok THEN ColumnsAfterInit(columns, added) ELSE columns
    /\ UNCHANGED <<rows, seq>>

\* weather_station.py line 136, db = WeatherDatabase(): __init__ calls
\* init_database and drops what it returns.
ImportDatabase ==
    /\ proc = "import"
    /\ \E ok \in BOOLEAN, added \in SUBSET RequiredColumns :
         /\ InitDatabaseCall(ok, added)
         /\ init_ret' = ok
    /\ proc' = "loaded"
    /\ UNCHANGED <<now, tz, stationVars, maintVars, histVars, last_wire, listener,
                   schedVars>>

\* main(): directories, load_settings (h is auto_cleanup_days as the settings
\* file gives it, the default when the file is absent), init_database() (which
\* only writes a log line), the two daemon threads (cleanup_scheduler begins
\* with last_cleanup = time.time()), app.run
Main(h) ==
    /\ proc = "loaded"
    /\ proc' = "serving"
    /\ auto_cleanup_days' = h
    /\ last_cleanup' = now
    /\ UNCHANGED <<storeVars, stationVars, maintVars, histVars, last_wire, columns,
                   init_ret, listener>>

Serving == proc = "serving"

\* init_database() called again: WeatherInterceptor.__init__, main() of
\* misol_server.py and misol_hybrid.py, each on the same data/weather.db
InitDatabase ==
    /\ \E ok \in BOOLEAN, added \in SUBSET RequiredColumns : InitDatabaseCall(ok, added)
    /\ columns' # columns
    /\ UNCHANGED <<now, tz, stationVars, maintVars, histVars, last_wire, proc,
                   init_ret, listener, schedVars>>

\* files a request can name in data/: the database, the CSV log, none
DataFiles == {"weather.db", "weather_data.csv", "nofile"}

\* handle_delete: os.remove(f'data/{filename}') when the file exists, then a
\* redirect; else 404.  Without data/weather.db the next connect creates an
\* empty database: no table, no row, no sqlite_sequence.
HandleDelete(f, exists) ==
    /\ f = "weather.db" => exists
    /\ f = "nofile" => ~exists
    /\ IF f = "weather.db"
         THEN rows' = {} /\ seq' = 0 /\ columns' = {}
         ELSE UNCHANGED <<rows, seq, columns>>
    /\ resp' = IF exists THEN Response(302, f, "handle_delete", 0)
                         ELSE Response(404, "File not found", "handle_delete", 0)
    /\ UNCHANGED <<now, tz, sync_enabled, sync_queue, online, rpc, rdata, spc,
                   queue_copy, sidx, slice_tmp, maintVars, histVars, last_wire, proc,
                   init_ret, listener, schedVars>>

\* handle_download: send_file when the file exists, else 404
HandleDownload(f, exists) ==
    /\ f = "weather.db" => exists
    /\ f = "nofile" => ~exists
    /\ resp' = IF exists THEN Response(200, f, "handle_download", 0)
                         ELSE Response(404, "File not found", "handle_download", 0)
    /\ UNCHANGED <<storeVars, sync_enabled, sync_queue, online, rpc, rdata, spc,
                   queue_copy, sidx, slice_tmp, maintVars, histVars, last_wire, sysVars>>

\* api_weather_latest: db.get_latest_data(), SELECT ... ORDER BY created_at
\* DESC LIMIT 1; 404 when there is no row
ApiWeatherLatest ==
    /\ resp' = IF rows = {}
                 THEN Response(404, "No data available", "api_weather_latest", 0)
                 ELSE Response(200, "latest", "api_weather_latest",
                               (CHOOSE r \in rows : \A q \in rows :
                                   q.created_at < r.created_at
                                   \/ (q.created_at = r.created_at /\ q.id <= r.id)).n)
    /\ UNCHANGED <<storeVars, sync_enabled, sync_queue, online, rpc, rdata, spc,
                   queue_copy, sidx, slice_tmp, maintVars, histVars, last_wire, sysVars>>

\* a row written by an earlier run of the program
OldRow == [id |-> 1, n |-> 0, device_id |-> ConfigDeviceId, datetime |-> 3,
           humidity_out |-> 50, temp_out_c |-> 25, created_at |-> 0]

\* data/weather.db at start-up: absent, current, or a table of an earlier
\* version that lacks some of the columns added since
Schemas == {{}, AllColumns, AllColumns \ {"model", "passkey"},
            AllColumns \ RequiredColumns}

NextAdmin ==
    \/ ImportDatabase
    \/ Main(RetentionDays)
    \/ InitDatabase
    \/ Serving /\ Tick
    \/ Serving /\ SaveWeatherData
    \/ Serving /\ columns # {} /\ CleanupCount("sched") /\ UNCHANGED last_cleanup
    \/ CleanupDelete("sched")
    \/ CleanupVacuum("sched")
    \/ CleanupReturn("sched")
    \/ Serving /\ ResetCount
    \/ ResetDelete
    \/ \E f \in DataFiles, exists \in BOOLEAN : Serving /\ HandleDelete(f, exists)
    \/ \E f \in DataFiles, exists \in BOOLEAN : Serving /\ HandleDownload(f, exists)
    \/ Serving /\ ApiWeatherLatest

InitAdmin ==
    /\ InitProcess
    /\ tz = 0
    /\ sync_enabled
    /\ online
    /\ proc = "import"
    /\ init_ret = TRUE
    /\ columns \in Schemas
    /\ rows \in (IF columns = {} THEN {{}} ELSE {{}, {OldRow}})
    /\ seq = Cardinality(rows)

SpecAdmin == InitAdmin /\ [][NextAdmin]_vars

\* --------------------------------------------------- the scheduler thread
\* cleanup_interval = 24 * 60 * 60
CleanupInterval == HoursPerDay

\* a scheduler that waits two intervals
CleanupDueAfterTwoIntervals == now - last_cleanup >= 2 * CleanupInterval

\* current_time - last_cleanup >= cleanup_interval
CleanupDue == now - last_cleanup >= CleanupInterval

\* auto_cleanup_days in raspi_settings.json: the default, or another value
ConfigHorizons == {RetentionDays, RetentionDays + 1}

\* One pass of the while loop of cleanup_scheduler that finds the cleanup
\* due: cleanup_old_data(), which calls db.cleanup_old_data(60), and
\* last_cleanup = current_time. (The assignment follows the purge in the
\* code, with the time read at the wake-up; only this thread reads it.)
SchedulerWake ==
    /\ Serving
    /\ CleanupDue
    /\ CleanupCount("sched")
    /\ last_cleanup' = now

\* The process is stopped and started again (reboot, service restart): the
\* threads and what they held are gone, the database file stays.
Restart ==
    /\ Serving
    /\ proc' = "import"
    /\ sync_queue' = <<>>
    /\ cpc' = [c \in Cleaners |-> "idle"]
    /\ ccutoff' = [c \in Cleaners |-> 0]
    /\ ccount' = [c \in Cleaners |-> 0]
    /\ UNCHANGED <<storeVars, sync_enabled, online, rpc, rdata, resp, spc, queue_copy,
                   sidx, slice_tmp, cret, rstpc, rstcount, rstret, histVars, last_wire,
                   columns, init_ret, listener, schedVars>>

NextSched ==
    \/ ImportDatabase
    \/ \E h \in ConfigHorizons : Main(h)
    \/ Tick
    \/ Serving /\ SaveWeatherData
    \/ SchedulerWake
    \/ CleanupDelete("sched")
    \/ CleanupVacuum("sched")
    \/ CleanupReturn("sched")
    \/ Restart

InitSched ==
    /\ InitProcess
    /\ tz = 0
    /\ sync_enabled
    /\ online
    /\ proc = "import"
    /\ init_ret = TRUE
    /\ columns = AllColumns
    /\ rows = {}
    /\ seq = 0

\* time.sleep(60) returns and the thread runs; the statements of a purge end.
SpecSched ==
    /\ InitSched /\ [][NextSched]_vars
    /\ WF_vars(SchedulerWake)
    /\ WF_vars(CleanupDelete("sched"))
    /\ WF_vars(CleanupVacuum("sched"))
    /\ WF_vars(CleanupReturn("sched"))


\* ------------------------------------------------ decoding a report
\* handle_post: int(device_id) when the form has an id, else the configured id
PostDeviceId(w) == IF w.id = AbsentId THEN ConfigDeviceId ELSE w.id

\* handle_post: dt += timedelta(hours=7) when dateutc is not empty
PostDatetime(w) == IF w.dateutc = AbsentDate THEN NoDate ELSE w.dateutc + GmtShift

\* handle_post: int(), float() and strptime raise ValueError on a malformed
\* value; the handler's except branch answers 500
PostDecodeFails(w) == w.id = BadId \/ w.num = "bad" \/ w.dateutc = BadDate

\* MisolHandler.parse_weather_data: float()/int() raise, the method returns None
MisolParseFails(w) == w.num = "bad"

\* (5.0 / 9.0) * (float(...) - 32.0), in whole degrees
ToCelsius(f) == ((f - 32) * 5) \div 9

\* int(form.get('humidity', 0)): 50 in a report that carries its fields
WireHumidity(w) == IF w.num = "ok" THEN 50 ELSE 0

\* (5.0 / 9.0) * (float(form.get('tempf', 0)) - 32.0): 77 F in a report that
\* carries its fields
WireTempOut(w) == ToCelsius(IF w.num = "ok" THEN 77 ELSE 0)

\* ------------------------------------------------------ the sync queue
\* weather_station.py: sync_data_to_server, process_sync_queue

\* WeatherDatabase has no method mark_uploaded: the call made after an HTTP 200
\* raises AttributeError inside the try block of sync_data_to_server.
MarkUploadedRaises == TRUE

NetOutcomes == {"200", "non200", "exception"}

\* sync_data: the form sync_data_to_server posts, by the keys followed here;
\* dateutc is weather_data.get('datetime', ''), the time as it was stored
SyncData(rd) == [id |-> rd.device_id, dateutc |-> rd.datetime,
                 humidity |-> rd.humidity_out]

\* a sync_data_to_server that returns from a failed probe without the append
SyncReturnsWhenOffline(net) ==
    net = "offline" \/ (net = "200" /\ ~MarkUploadedRaises)

\* return value of sync_data_to_server, forwarding enabled; net is "offline"
\* when the probe failed, else the outcome of requests.post
SyncReturns(net) == net = "200" /\ ~MarkUploadedRaises

\* a sync_data_to_server whose non-200 branch forgets the append
SyncQueueAfterDropNon200(q, e, net) ==
    IF SyncReturns(net) \/ net = "non200" THEN q ELSE Append(q, e)

\* config.sync_queue after sync_data_to_server(e), forwarding enabled
SyncQueueAfter(q, e, net) == IF SyncReturns(net) THEN q ELSE Append(q, e)

\* config.sync_queue[-1000:]
LastN(q, k) == IF Len(q) <= k THEN q ELSE SubSeq(q, Len(q) - k + 1, Len(q))

QueueNs == {sync_queue[i].n : i \in 1..Len(sync_queue)}

\* connectivity comes and goes
ConnectivityChange ==
    /\ online' = ~online
    /\ UNCHANGED <<storeVars, sync_enabled, sync_queue, rpc, rdata, resp, spc,
                   queue_copy, sidx, slice_tmp, maintVars, histVars>>
    /\ UNCHANGED <<last_wire, sysVars>>

\* handle_post up to the connectivity probe of sync_data_to_server: decode
\* the form, then save_weather_data: db.save_weather_data, the CSV line,
\* sync_data_to_server.  st is what the storage does: "ok", "db_fail" (the
\* insert raises), "csv_fail" (the CSV write raises after the row was
\* committed).  With forwarding disabled, or with check_internet_connection
\* failing (the reading is queued), save_weather_data returns True and the
\* handler answers 200; with the probe succeeding the thread goes on to
\* requests.post.
\* a save_weather_data that goes on to the relay when the insert failed
ReachesSyncAfterFailedInsert(st) == st # "csv_fail"

\* save_weather_data of the station reaches sync_data_to_server(data): not
\* when db.save_weather_data returned False (return False at once), not when
\* the CSV append raised (except branch)
ReachesSync(st) == st = "ok"

Receive(t, w, st) ==
    /\ rpc[t] = "idle"
    /\ nreq < MaxRequests
    /\ st # "db_fail" => CanInsert
    /\ nreq' = nreq + 1
    /\ LET rd == [n |-> nreq + 1, device_id |-> PostDeviceId(w),
                  datetime |-> PostDatetime(w), humidity_out |-> WireHumidity(w),
                  temp_out_c |-> WireTempOut(w)] IN
         IF PostDecodeFails(w)
           THEN /\ resp' = Response(500, "Error", "handle_post", rd.n)
                /\ UNCHANGED <<rows, seq, rpc, rdata, last_insert, sync_queue, enqueued>>
           ELSE /\ last_insert' = [ret |-> st # "db_fail", wrote |-> st # "db_fail",
                                   n |-> rd.n, closed |-> st # "db_fail"]
                /\ IF st = "db_fail"
                     THEN UNCHANGED <<rows, seq>>
                     ELSE /\ rows' = InsertRow(rows, seq, rd, now)
                          /\ seq' = NextRowId(rows, seq)
                /\ IF ~ReachesSync(st)
                     THEN /\ resp' = Response(500, "Failed to save data.", "handle_post", rd.n)
                          /\ UNCHANGED <<rpc, rdata, sync_queue, enqueued>>
                     ELSE IF ~sync_enabled
                       THEN /\ resp' = Response(200, "Data saved to database.",
                                                "handle_post", rd.n)
                            /\ UNCHANGED <<rpc, rdata, sync_queue, enqueued>>
                       ELSE IF ~online
                         THEN /\ sync_queue' = SyncQueueAfter(sync_queue, rd, "offline")
                              /\ enqueued' = enqueued \cup {rd.n}
                              /\ resp' = Response(200, "Data saved to database.",
                                                  "handle_post", rd.n)
                              /\ UNCHANGED <<rpc, rdata>>
                         ELSE /\ rpc' = [rpc EXCEPT ![t] = "post"]
                              /\ rdata' = [rdata EXCEPT ![t] = rd]
                              /\ UNCHANGED <<resp, sync_queue, enqueued>>
    /\ UNCHANGED <<now, tz, sync_enabled, online, spc, queue_copy, sidx,
                   slice_tmp, maintVars, trimmed, sent, pass_failed, cremoved>>
    /\ UNCHANGED sysVars

\* sync_data_to_server on the request thread: requests.post and what follows
SyncPost(t) ==
    /\ rpc[t] = "post"
    /\ \E net \in NetOutcomes :
         /\ sync_queue' = SyncQueueAfter(sync_queue, rdata[t], net)
         /\ enqueued' = IF SyncReturns(net) THEN enqueued
                                            ELSE enqueued \cup {rdata[t].n}
         /\ sent' = IF net = "200" THEN sent \cup {rdata[t].n} ELSE sent
    /\ rpc' = [rpc EXCEPT ![t] = "idle"]
    /\ rdata' = [rdata EXCEPT ![t] = NoReading]
    /\ resp' = Response(200, "Data saved to database.", "handle_post", rdata[t].n)
    /\ UNCHANGED <<storeVars, sync_enabled, online, spc, queue_copy, sidx, slice_tmp,
                   maintVars, nreq, trimmed, pass_failed, cremoved, last_insert>>
    /\ UNCHANGED <<last_wire, sysVars>>

\* The JSON bodies of /api/weather, in the shape of a report: the key
\* device_id (id), the key datetime (dateutc), and the measurement keys, which
\* are missing, null or numbers.
JsonBodies == [id : {AbsentId, 7}, dateutc : {AbsentDate, 10},
               num : {"absent", "null", "ok"}, marker : {TRUE}]

\* request.get_json(), with data['device_id'] = config.settings.get('id', 1)
\* when the key is missing (load_settings copies the configured device id
\* there); every other key is left as the body has it
ApiReading(j, n) ==
    LET v(x) == IF j.num = "absent" THEN Absent ELSE IF j.num = "null" THEN Null ELSE x IN
      [n |-> n,
       device_id |-> IF j.id = AbsentId THEN ConfigDeviceId ELSE j.id,
       datetime |-> IF j.dateutc = AbsentDate THEN Absent ELSE j.dateutc,
       humidity_out |-> v(50),
       temp_out_c |-> v(25)]

\* api_weather: the body goes to save_weather_data as it is: the insert, the
\* CSV line, sync_data_to_server (net: what the probe and requests.post do),
\* then the JSON answer.
ApiWeather(j, st, net) ==
    /\ nreq < MaxRequests
    /\ st # "db_fail" => CanInsert
    /\ (net = "offline") = ~online
    /\ nreq' = nreq + 1
    /\ LET rd == ApiReading(j, nreq + 1) IN
         /\ last_insert' = [ret |-> st # "db_fail", wrote |-> st # "db_fail", n |-> rd.n,
                            closed |-> st # "db_fail"]
         /\ IF st = "db_fail"
              THEN UNCHANGED <<rows, seq>>
              ELSE /\ rows' = InsertRow(rows, seq, rd, now)
                   /\ seq' = NextRowId(rows, seq)
         /\ IF ReachesSync(st) /\ sync_enabled
              THEN /\ sync_queue' = SyncQueueAfter(sync_queue, rd, net)
                   /\ enqueued' = IF SyncReturns(net) THEN enqueued
                                                      ELSE enqueued \cup {rd.n}
                   /\ sent' = IF net = "200" THEN sent \cup {rd.n} ELSE sent
              ELSE UNCHANGED <<sync_queue, enqueued, sent>>
         /\ resp' = IF st = "ok" THEN Response(200, "Data saved", "api_weather", rd.n)
                                 ELSE Response(500, "Failed to save data", "api_weather", rd.n)
    /\ UNCHANGED <<now, tz, sync_enabled, online, rpc, rdata, spc, queue_copy, sidx,
                   slice_tmp, maintVars, trimmed, pass_failed, cremoved, sysVars>>

\* cleanup_scheduler finds the queue non-empty and calls process_sync_queue,
\* which goes on when the probe succeeds: queue_copy = config.sync_queue.copy().
\* (With the probe failing the call returns and nothing changes.)
PassCopy ==
    /\ spc = "idle"
    /\ sync_queue # <<>>
    /\ online
    /\ queue_copy' = sync_queue
    /\ sidx' = 1
    /\ pass_failed' = {}
    /\ spc' = "clear"
    /\ UNCHANGED <<storeVars, sync_enabled, sync_queue, online, rpc, rdata, resp,
                   slice_tmp, maintVars, nreq, enqueued, trimmed, sent, cremoved,
                   last_insert>>
    /\ UNCHANGED <<last_wire, sysVars>>

\* config.sync_queue.clear()
PassClear ==
    /\ spc = "clear"
    /\ sync_queue' = <<>>
    /\ spc' = "loop"
    /\ UNCHANGED <<storeVars, sync_enabled, online, rpc, rdata, resp, queue_copy, sidx,
                   slice_tmp, maintVars, histVars>>
    /\ UNCHANGED <<last_wire, sysVars>>

\* one iteration of `for weather_data in queue_copy`: sync_data_to_server
PassItem ==
    /\ spc = "loop"
    /\ sidx <= Len(queue_copy)
    /\ LET e == queue_copy[sidx] IN
         \E net \in NetOutcomes \cup {"offline"} :
           /\ (net = "offline") = ~online
           /\ IF sync_enabled
                THEN /\ sync_queue' = SyncQueueAfter(sync_queue, e, net)
                     /\ sent' = IF net = "200" THEN sent \cup {e.n} ELSE sent
                     /\ pass_failed' = IF net = "200" THEN pass_failed
                                                      ELSE pass_failed \cup {e.n}
                ELSE UNCHANGED <<sync_queue, sent, pass_failed>>
    /\ sidx' = sidx + 1
    /\ UNCHANGED <<storeVars, sync_enabled, online, rpc, rdata, resp, spc, queue_copy,
                   slice_tmp, maintVars, nreq, enqueued, trimmed, cremoved, last_insert>>
    /\ UNCHANGED <<last_wire, sysVars>>

\* end of the loop: if len(config.sync_queue) > 1000
PassEnd ==
    /\ spc = "loop"
    /\ sidx > Len(queue_copy)
    /\ spc' = IF Len(sync_queue) > MaxQueue THEN "trim" ELSE "idle"
    /\ queue_copy' = <<>>
    /\ sidx' = 1
    /\ UNCHANGED <<storeVars, sync_enabled, sync_queue, online, rpc, rdata, resp,
                   slice_tmp, maintVars, histVars>>
    /\ UNCHANGED <<last_wire, sysVars>>

\* the right-hand side of config.sync_queue = config.sync_queue[-1000:]
PassSlice ==
    /\ spc = "trim"
    /\ slice_tmp' = LastN(sync_queue, MaxQueue)
    /\ trimmed' = trimmed \cup {sync_queue[i].n : i \in 1..(Len(sync_queue) - MaxQueue)}
    /\ spc' = "store"
    /\ UNCHANGED <<storeVars, sync_enabled, sync_queue, online, rpc, rdata, resp,
                   queue_copy, sidx, maintVars, nreq, enqueued, sent, pass_failed,
                   cremoved, last_insert>>
    /\ UNCHANGED <<last_wire, sysVars>>

\* the assignment to config.sync_queue
PassStore ==
    /\ spc = "store"
    /\ sync_queue' = slice_tmp
    /\ slice_tmp' = <<>>
    /\ spc' = "idle"
    /\ UNCHANGED <<storeVars, sync_enabled, online, rpc, rdata, resp, queue_copy, sidx,
                   maintVars, histVars>>
    /\ UNCHANGED <<last_wire, sysVars>>

\* the report the station is sent in this model: a well-formed one, sent
\* again and again
StationWires == {w \in Wires : w.id = AbsentId /\ w.dateutc = 10
                               /\ w.num = "ok" /\ w.marker}

Next ==
    \/ ConnectivityChange
    \/ \E t \in Threads, w \in StationWires, st \in {"ok", "db_fail", "csv_fail"} :
         Receive(t, w, st) /\ UNCHANGED last_wire
    \/ \E t \in Threads : SyncPost(t)
    \/ PassCopy
    \/ PassClear
    \/ PassItem
    \/ PassEnd
    \/ PassSlice
    \/ PassStore

\* The station process: no action of it reads the host's UTC offset.
Init == InitAny /\ tz = 0

Spec == Init /\ [][Next]_vars


\* ------------------------------------------- the Misol HTTP endpoints
\* misol_server.py, misol_hybrid.py: MisolHandler (a single-threaded
\* HTTPServer: one request at a time)

\* self.device_id or 99
OrFallback(d) == IF d = 0 THEN FallbackDeviceId ELSE d

\* a handler that reports a failed decode to the device
MisolResponseFailsOnParse(ep, w, n) ==
    IF w.marker /\ MisolParseFails(w) THEN Response(500, "error", ep, n)
                                       ELSE Response(200, "success", ep, n)

\* send_response(200) ... wfile.write(b'success\n'): reached whatever the
\* report was and whatever parse and save did
MisolResponse(ep, w, n) == Response(200, "success", ep, n)

\* The request was read.  With a weather keyword in it, parse_weather_data and,
\* unless that returned None, save_weather_data: the insert, then the read of
\* db.last_insert_duplicate, which WeatherDatabase does not have (the
\* AttributeError is caught in save_weather_data).  Then the response.
MisolHandle(ep, w, ok) ==
    /\ nreq < MaxRequests
    /\ ok => CanInsert
    /\ nreq' = nreq + 1
    /\ LET rd == [n |-> nreq + 1, device_id |-> OrFallback(ConfigDeviceId),
                  datetime |-> LocalNow, humidity_out |-> WireHumidity(w),
                  temp_out_c |-> WireTempOut(w)] IN
         IF w.marker /\ ~MisolParseFails(w)
           THEN /\ last_insert' = [ret |-> ok, wrote |-> ok, n |-> rd.n,
                                   closed |-> ok]
                /\ IF ok
                     THEN /\ rows' = InsertRow(rows, seq, rd, now)
                          /\ seq' = NextRowId(rows, seq)
                     ELSE UNCHANGED <<rows, seq>>
           ELSE UNCHANGED <<rows, seq, last_insert>>
    /\ resp' = MisolResponse(ep, w, nreq + 1)
    /\ UNCHANGED <<now, tz, sync_enabled, sync_queue, online, rpc, rdata, spc,
                   queue_copy, sidx, slice_tmp, maintVars, enqueued, trimmed, sent,
                   pass_failed, cremoved>>
    /\ UNCHANGED sysVars

\* misol_server.py: MisolHandler.do_GET
MisolDoGet(w, ok) == MisolHandle("misol_get", w, ok)

\* misol_server.py: MisolHandler.do_POST
MisolDoPost(w, ok) == MisolHandle("misol_post", w, ok)

\* misol_hybrid.py: MisolHandler._handle_request
HybridHandleRequest(w, ok) == MisolHandle("hybrid", w, ok)

\* The ingestion endpoints, sent any report, MaxHttpRequests requests in all.
NextHttp ==
    \/ ConnectivityChange
    \/ \E t \in Threads, w \in Wires, st \in {"ok", "db_fail", "csv_fail"} :
         nreq < MaxHttpRequests /\ Receive(t, w, st) /\ UNCHANGED last_wire
    \/ \E t \in Threads : SyncPost(t)
    \/ \E w \in Wires, ok \in BOOLEAN :
         nreq < MaxHttpRequests /\ MisolDoGet(w, ok) /\ UNCHANGED last_wire
    \/ \E w \in Wires, ok \in BOOLEAN :
         nreq < MaxHttpRequests /\ MisolDoPost(w, ok) /\ UNCHANGED last_wire
    \/ \E w \in Wires, ok \in BOOLEAN :
         nreq < MaxHttpRequests /\ HybridHandleRequest(w, ok) /\ UNCHANGED last_wire

SpecHttp == Init /\ [][NextHttp]_vars


\* ------------------------------------------------- the capture loops
\* weather_interceptor.py: WeatherInterceptor; misol_hybrid.py: TcpdumpSniffer
\* (one line of tcpdump output at a time; marker: the line carries a weather
\* keyword and PASSKEY=)

\* WeatherInterceptor.parse_weather_data: the inner try keeps the original
\* string when strptime rejects dateutc, else adds seven hours
InterceptDatetime(w) ==
    IF w.dateutc \in {AbsentDate, BadDate} THEN w.dateutc ELSE w.dateutc + GmtShift

\* a parse_weather_data that lets the ValueError out: the loop's except
\* branch ends the capture
ListenerAfterDropRaises(l) == [state |-> "stopped", dropped |-> l.dropped + 1]

\* parse_weather_data returned None (its except branch): the loop's
\* `if weather_data:` skips the line and reads the next one
ListenerAfterDrop(l) == [l EXCEPT !.dropped = l.dropped + 1]

\* One line read by a capture loop.  dt: the datetime the decoder gives the
\* reading.  A line without the marker is passed over; parse_weather_data
\* returns None for a field float()/int() reject; else save_weather_data:
\* the insert, then the read of db.last_insert_duplicate (AttributeError,
\* caught in save_weather_data).
ListenLine(w, dt, ok) ==
    /\ listener.state = "running"
    /\ nreq < MaxRequests
    /\ ok => CanInsert
    /\ nreq' = nreq + 1
    /\ LET rd == [n |-> nreq + 1, device_id |-> ConfigDeviceId, datetime |-> dt,
                  humidity_out |-> WireHumidity(w), temp_out_c |-> WireTempOut(w)] IN
         IF ~w.marker
           THEN UNCHANGED <<rows, seq, last_insert, listener>>
           ELSE IF MisolParseFails(w)
             THEN /\ listener' = ListenerAfterDrop(listener)
                  /\ UNCHANGED <<rows, seq, last_insert>>
             ELSE /\ last_insert' = [ret |-> ok, wrote |-> ok, n |-> rd.n,
                                   closed |-> ok]
                  /\ IF ok
                       THEN /\ rows' = InsertRow(rows, seq, rd, now)
                            /\ seq' = NextRowId(rows, seq)
                       ELSE UNCHANGED <<rows, seq>>
                  /\ UNCHANGED listener
    /\ UNCHANGED <<now, tz, stationVars, maintVars, enqueued, trimmed, sent,
                   pass_failed, cremoved, columns, proc, init_ret, schedVars>>

\* WeatherInterceptor.start_intercepting: one pass of the while loop
InterceptLine(w, ok) == ListenLine(w, InterceptDatetime(w), ok)

\* TcpdumpSniffer.start: one pass of the while loop
SniffLine(w, ok) == ListenLine(w, LocalNow, ok)

\* Ctrl+C, or tcpdump cannot be started: the loop ends
ListenerStop ==
    /\ listener.state = "running"
    /\ listener' = [listener EXCEPT !.state = "stopped"]
    /\ UNCHANGED <<storeVars, stationVars, maintVars, histVars, last_wire, columns,
                   proc, init_ret, schedVars>>

\* ------------------------------------------------------ the decoders
\* Every entry point that decodes a report, MaxDecodes reports in all;
\* last_wire keeps the report handed in last.

\* The reports of a behaviour: the first or the second is any report, the
\* others are well-formed.
DecodeInputs ==
    IF nreq <= 1 /\ last_wire \in StationWires \cup {NoWire} THEN Wires ELSE StationWires

\* the same for the JSON bodies
JsonInputs ==
    IF nreq <= 1 /\ last_wire \in StationWires \cup {NoWire}
      THEN JsonBodies
      ELSE {j \in JsonBodies : j.id = 7 /\ j.dateutc = 10 /\ j.num = "ok"}

NextDecode ==
    \/ \E t \in Threads, w \in DecodeInputs, st \in {"ok", "db_fail", "csv_fail"} :
         nreq < MaxDecodes /\ Receive(t, w, st) /\ last_wire' = w
    \/ \E t \in Threads : SyncPost(t)
    \/ \E j \in JsonInputs, st \in {"ok", "db_fail", "csv_fail"},
          net \in NetOutcomes \cup {"offline"} :
         nreq < MaxDecodes /\ ApiWeather(j, st, net) /\ last_wire' = j
    \/ \E w \in DecodeInputs, ok \in BOOLEAN :
         nreq < MaxDecodes /\ MisolDoGet(w, ok) /\ last_wire' = w
    \/ \E w \in DecodeInputs, ok \in BOOLEAN :
         nreq < MaxDecodes /\ MisolDoPost(w, ok) /\ last_wire' = w
    \/ \E w \in DecodeInputs, ok \in BOOLEAN :
         nreq < MaxDecodes /\ HybridHandleRequest(w, ok) /\ last_wire' = w
    \/ \E w \in DecodeInputs, ok \in BOOLEAN :
         nreq < MaxDecodes /\ InterceptLine(w, ok) /\ last_wire' = w
    \/ \E w \in DecodeInputs, ok \in BOOLEAN :
         nreq < MaxDecodes /\ SniffLine(w, ok) /\ last_wire' = w
    \/ ListenerStop

SpecDecode == Init /\ [][NextDecode]_vars

\* ------------------------------------------------- properties of the queue

\* C2: the pending sync queue never holds more than its configured maximum
\* of entries.
C2_QueueBound == Len(sync_queue) <= MaxQueue

\* C3: an entry that process_sync_queue took out of the queue and whose relay
\* ended in no connectivity, a non-200 status, a timeout or a connection error
\* is in the queue again, unless the size limit cut it off.
C3_FailedRelayRequeued == \A n \in pass_failed : n \in QueueNs \/ n \in trimmed

C3_Witness ==
    /\ spc = "idle"
    /\ pass_failed # {}
    /\ pass_failed \subseteq QueueNs
    /\ sent # {}

\* a step in which one call of sync_data_to_server, forwarding enabled, ends
\* with the target unreachable: the probe failed, or the POST got no 200
UnreachableOnRequest ==
    /\ nreq' = nreq + 1
    /\ sync_enabled /\ ~online
    /\ last_insert'.n = nreq' /\ last_insert'.ret
    /\ resp'.n = nreq' /\ resp'.status = 200

UnreachableOnPost(t) ==
    /\ rpc[t] = "post" /\ rpc'[t] = "idle"
    /\ rdata[t].n \notin sent'

UnreachableInPass ==
    /\ spc = "loop" /\ sidx' = sidx + 1
    /\ sync_enabled
    /\ queue_copy[sidx].n \notin sent'

\* C22: with forwarding enabled, a call of sync_data_to_server that finds the
\* relay target unreachable appends its reading to the pending queue, whose
\* length grows by exactly one, and the caller goes on (nothing propagates).
C22_UnreachableEnqueuesOnce ==
    [][/\ UnreachableOnRequest =>
            /\ Len(sync_queue') = Len(sync_queue) + 1
            /\ sync_queue'[Len(sync_queue')].n = nreq'
       /\ \A t \in Threads : UnreachableOnPost(t) =>
            /\ sync_queue' = Append(sync_queue, rdata[t])
            /\ resp'.status = 200
       /\ UnreachableInPass =>
            /\ sync_queue' = Append(sync_queue, queue_copy[sidx])
            /\ spc' = "loop"]_vars

C22_Witness ==
    /\ ~online
    /\ sync_enabled
    /\ Len(sync_queue) = 1
    /\ sync_queue[1].n = nreq
    /\ resp.n = nreq /\ resp.status = 200
    /\ nreq \notin sent

\* the step that ends the loop of process_sync_queue
PassEndStep == spc = "loop" /\ spc' # "loop"

\* C23: the retry makes progress: when a pass of process_sync_queue ends,
\* every entry it took out of the queue and whose POST the remote answered
\* with 200 has left the queue, so that with connectivity up and the remote
\* answering 200 the passes empty the queue.
C23_AnsweredEntryLeavesQueue ==
    [][(PassEndStep /\ sync_enabled) =>
          \A i \in 1..Len(queue_copy) :
              (queue_copy[i].n \in sent /\ queue_copy[i].n \notin pass_failed)
                  => queue_copy[i].n \notin QueueNs]_vars

\* C24: a reading that is received twice is relayed at most once: of the
\* stored rows with one (device_id, datetime) key, at most one was handed to
\* the relay path (posted or queued).
C24_DuplicateNotRelayed ==
    \A r1, r2 \in rows :
        (SameKey(r1, r2) /\ {r1.n, r2.n} \subseteq (sent \cup enqueued))
            => r1.n = r2.n

\* a request thread is still inside the unit of work of reading n
InFlight(n) == \E t \in Threads : rpc[t] = "post" /\ rdata[t].n = n

\* C25: with forwarding enabled, every reading written to the store, through
\* whichever entry point, is relayed or waits in the pending queue once its
\* unit of work has ended.
C25_StoredIsRelayedOrQueued ==
    sync_enabled =>
        \A r \in rows : r.n > 0 =>
            r.n \in sent \/ r.n \in QueueNs \/ InFlight(r.n)

\* C26: a periodic retention pass purges with the horizon of the settings:
\* the cutoff of the purge the scheduler starts is the clock minus
\* auto_cleanup_days days.
C26_PurgeUsesConfiguredHorizon ==
    [][(cpc["sched"] = "idle" /\ cpc'["sched"] = "delete") =>
          ccutoff'["sched"] = LocalNow - auto_cleanup_days * HoursPerDay]_vars

\* the scheduler has just invoked the purge
PurgeInvoked == cpc["sched"] # "idle" /\ last_cleanup = now

C28_ConnectionClosedAtReturn ==
    /\ last_insert.closed
    /\ \A c \in Cleaners : cret[c].closed

\* the readings handed to the relay path: posted, being posted, or queued
Relayed == sent \cup enqueued \cup {rdata[t].n : t \in {u \in Threads : rpc[u] = "post"}}

C30_RelayRestoresDateutc ==
    \A t \in Threads :
        (/\ rpc[t] = "post"
         /\ rdata[t].n = nreq
         /\ last_wire \in Wires
         /\ last_wire.dateutc \notin {AbsentDate, BadDate})
            => SyncData(rdata[t]).dateutc = last_wire.dateutc

\* C4: a reading the remote answered with HTTP 200 is not in the queue (it is
\* Sent, and no later pass relays it again).
C4_SentIsTerminal == \A n \in sent : n \notin QueueNs

\* the readings process_sync_queue holds and has not yet handed to
\* sync_data_to_server
PassPending ==
    IF spc \in {"clear", "loop"}
      THEN {queue_copy[i].n : i \in sidx..Len(queue_copy)}
      ELSE {}

\* C5: no enqueued entry is lost: each is in the queue, held by the running
\* pass, relayed with HTTP 200, or cut off by the size limit.
C5_NoEntryLost ==
    \A n \in enqueued : n \in QueueNs \/ n \in PassPending \/ n \in sent \/ n \in trimmed

\* C6: the trim removes the head of the queue and nothing else: the queue after
\* it is the last MaxQueue entries of the queue before it, in order.
C6_TrimKeepsNewest ==
    [][(spc = "store" /\ spc' = "idle") => sync_queue' = LastN(sync_queue, MaxQueue)]_vars

\* C20: the remote receives the readings in the order they were stored: when
\* it answers a reading with HTTP 200 for the first time, it has not yet
\* answered a reading stored later.
C20_RelayInOrder == [][\A n \in sent' \ sent : \A m \in sent : m < n]_vars

\* C8: no request thread is ever in a relay POST to the remote aggregator
\* (nor, before it, in the connectivity probe): relays are the periodic
\* task's.
C8_NoRelayOnIngestionPath == \A t \in Threads : rpc[t] # "post"


\* ------------------------------------------------- properties of the store

\* C1: no two stored rows carry the same (device_id, datetime) key: a second
\* insert of a key is reported as a duplicate and writes nothing.
C1_OneRowPerKey == \A r1, r2 \in rows : SameKey(r1, r2) => r1 = r2

\* now minus the retention horizon, on the clock created_at is written with
TrueCutoff == now - RetentionDays * HoursPerDay

\* C9: when cleanup_old_data returns, no stored row is older than the horizon
\* and the count returned is the number of rows the call removed.
C9_PurgeComplete ==
    [][\A c \in Cleaners :
         (cpc[c] # "ret" /\ cpc'[c] = "ret") =>
            /\ \A r \in rows' : r.created_at >= now' - RetentionDays * HoursPerDay
            /\ cret'[c].count = cremoved'[c]]_vars

\* C10: cleanup_old_data removes no row inserted within the horizon.
C10_PurgeKeepsYoungRows ==
    [][\A c \in Cleaners :
         (cpc[c] = "delete" /\ cpc'[c] = "vacuum") =>
            \A r \in rows \ rows' : r.created_at < TrueCutoff]_vars


\* C15: when reset_database returns, the store is empty, the next insert
\* gets id 1, and the count returned is the number of rows the DELETE
\* removed.
C15_ResetCountExact ==
    [][(rstpc = "delete" /\ rstpc' = "idle") =>
         /\ rows' = {}
         /\ NextRowId(rows', seq') = 1
         /\ rstret'.count = Cardinality(rows \ rows')]_vars

\* --------------------------------------------- properties of the endpoints

MisolEndpoints == {"misol_get", "misol_post", "hybrid"}

Stored(n) == \E r \in rows : r.n = n

PurgeOrResetStep ==
    \/ \E c \in Cleaners : cpc[c] = "delete" /\ cpc'[c] = "vacuum"
    \/ rstpc = "delete" /\ rstpc' = "idle"

\* C11: a stored row is never modified after its insert, and it leaves the
\* store only in the DELETE of cleanup_old_data or of reset_database: every
\* other step (ingestion, start-up, init_database, the read, download and
\* delete endpoints) keeps every row as it is.
C11_RowsFrame ==
    [][\A r \in rows : r \in rows' \/ (PurgeOrResetStep /\ r.id \notin {q.id : q \in rows'})]_vars


\* the step is an init_database call that returned True
InitOkStep ==
    \/ columns' # columns /\ columns' # {}
    \/ proc = "import" /\ proc' = "loaded" /\ init_ret'

\* C14: init_database is non-destructive and leaves a complete table: a call
\* that returns True leaves every row and every existing column as it was,
\* and the table with all the required columns, so that a second call finds
\* nothing to do.
C14_InitIdempotent ==
    [][InitOkStep =>
         /\ rows' = rows
         /\ columns # {} => columns \subseteq columns'
         /\ RequiredColumns \subseteq columns'
         /\ MissingColumns(columns') = {}]_vars

\* C13: when init_database failed at the start of the process, the station
\* never gets to serve requests.
C13_InitFailureAborts == ~init_ret => ~Serving

\* ------------------------------------------- properties of the save path

\* C21: a reading whose insert the storage engine rejected is not dropped:
\* it is stored, or a caller still holds it to try the insert again.
C21_RejectedInsertRetried ==
    (last_insert.n > 0 /\ ~last_insert.ret) =>
        \/ Stored(last_insert.n)
        \/ \E t \in Threads : rdata[t].n = last_insert.n

\* C12: when the save path reports failure for a reading
\* (WeatherDatabase.save_weather_data returned False, or the station's
\* save_weather_data did and handle_post answered 'Failed to save data.'),
\* the store holds no row of that reading; and a reading answered with
\* 'Data saved to database.' has its row.
C12_FailureMeansNoRow ==
    /\ ~last_insert.ret => ~Stored(last_insert.n)
    /\ (resp.endpoint = "handle_post" /\ resp.body = "Failed to save data.")
         => ~Stored(resp.n)
    /\ (resp.endpoint = "handle_post" /\ resp.status = 200) => Stored(resp.n)


\* ------------------------------------------- properties of the decoders

\* the device id the resolution order gives a report, the configured id
\* being present: the wire id when it is an integer, else the configured id
ResolvedDeviceId(w) == IF w.id \notin {AbsentId, BadId} THEN w.id ELSE ConfigDeviceId

\* C16: the row of the report handed in last carries the device id the
\* resolution order gives it, on every entry point; and a report whose only
\* defect is an id that is not an integer is decoded and handed to the store.
C16_DeviceIdResolution ==
    /\ \A r \in rows : r.n = nreq => r.device_id = ResolvedDeviceId(last_wire)
    /\ (/\ nreq > 0
        /\ last_wire.id = BadId
        /\ last_wire.num # "bad"
        /\ last_wire.dateutc # BadDate
        /\ last_wire.marker) => last_insert.n = nreq

\* C17: no stored row has a null measurement, and the row of a report or JSON
\* body whose measurement fields are absent has zero in them.
C17_NoNullMeasurement ==
    /\ \A r \in rows : r.humidity_out # Null /\ r.temp_out_c # Null
    /\ \A r \in rows : (r.n = nreq /\ last_wire.num = "absent")
                          => (r.humidity_out = 0 /\ r.temp_out_c = 0)

\* C18: a report with a field that cannot be coerced, and no other defect,
\* is decoded all the same: the reading is handed to the store, and its row
\* has zero in that field.
C18_MalformedFieldIsZero ==
    /\ (/\ nreq > 0
        /\ last_wire.num = "bad"
        /\ last_wire.id # BadId
        /\ last_wire.dateutc # BadDate
        /\ last_wire.marker) => last_insert.n = nreq
    /\ \A r \in rows : (r.n = nreq /\ last_wire.num = "bad") => r.humidity_out = 0

\* the step takes in a report that the entry point fails to decode
DecodeFailedStep ==
    /\ nreq' = nreq + 1
    /\ \/ listener'.dropped = listener.dropped + 1
       \/ /\ resp'.endpoint = "handle_post"
          /\ resp'.n = nreq'
          /\ PostDecodeFails(last_wire')
       \/ /\ resp'.endpoint \in MisolEndpoints
          /\ resp'.n = nreq'
          /\ last_wire'.marker
          /\ MisolParseFails(last_wire')

\* C19: a report that fails to decode is dropped: the store, the queue and
\* the request threads are as before, and the capture loop is still running.
C19_DecodeFailureDrops ==
    [][DecodeFailedStep =>
         /\ rows' = rows
         /\ seq' = seq
         /\ sync_queue' = sync_queue
         /\ last_insert' = last_insert
         /\ rpc' = rpc
         /\ listener'.state = listener.state
         /\ proc' = proc]_vars

\* a capture loop has dropped the first line and stored the second
C19_Witness ==
    /\ listener = [state |-> "running", dropped |-> 1]
    /\ resp.endpoint = "none"
    /\ nreq = 2
    /\ \E r \in rows : r.n = 2
    /\ \A r \in rows : r.n # 1

====
